---- MODULE Spec2Model ----
(***************************************************************************)
(* The inshorts news data syncer: two drivers that load a JSON file of     *)
(* articles into an Elasticsearch index.                                   *)
(*   entry = "bulk"   : package main of src/utils/time.go (lines 23-348),  *)
(*                      createMappingsSettings, loadArticles, bulkIndex    *)
(*                      and flushBulk, batches of bulkSize through _bulk.  *)
(*   entry = "single" : src/cmd/main.go, createMappingsSettings and        *)
(*                      loadNewsFromFile, one index request per article.   *)
(* The store (Elasticsearch) is the environment: each call to it answers   *)
(* nondeterministically with one of the replies the client can receive.    *)
(***************************************************************************)
EXTENDS Integers, Sequences, FiniteSets, TLC

\* ------------------------------------------------------------------ bounds
\* Longest article file the model loads.
MaxArticles == 3
\* Largest batch size; the program's bulkSize (500) is drawn from 1..MaxBulkSize.
MaxBulkSize == 3

\* ------------------------------------------------- utils.NormalizeToESDate
\* A string is a sequence of one-character strings.
DigitChars == <<"0", "1", "2", "3", "4", "5", "6", "7", "8", "9">>

isDigit(s, k) == k <= Len(s) /\ \E n \in 1..10 : DigitChars[n] = s[k]

digitVal(c) == (CHOOSE n \in 1..10 : DigitChars[n] = c) - 1

\* s without its first n characters (Go's s[n:]).
Drop(s, n) == IF n >= Len(s) THEN <<>> ELSE SubSeq(s, n + 1, Len(s))

\* time.getnum: one or two leading digits; with fixed, exactly two.
getnum(s, fixed) ==
    IF ~isDigit(s, 1) THEN [ok |-> FALSE, n |-> 0, rest |-> s]
    ELSE IF ~isDigit(s, 2)
         THEN IF fixed THEN [ok |-> FALSE, n |-> 0, rest |-> s]
              ELSE [ok |-> TRUE, n |-> digitVal(s[1]), rest |-> Drop(s, 1)]
         ELSE [ok |-> TRUE, n |-> digitVal(s[1]) * 10 + digitVal(s[2]), rest |-> Drop(s, 2)]

\* The stdLongYear chunk: exactly four digits.
getyear(s) ==
    IF Len(s) >= 4 /\ \A k \in 1..4 : isDigit(s, k)
    THEN [ok |-> TRUE,
          n |-> digitVal(s[1]) * 1000 + digitVal(s[2]) * 100 + digitVal(s[3]) * 10 + digitVal(s[4]),
          rest |-> Drop(s, 4)]
    ELSE [ok |-> FALSE, n |-> 0, rest |-> s]

\* A literal chunk of the layout ("-", "T", ":").
skip(s, c) ==
    IF Len(s) >= 1 /\ s[1] = c THEN [ok |-> TRUE, rest |-> Drop(s, 1)]
    ELSE [ok |-> FALSE, rest |-> s]

isLeap(year) == year % 4 = 0 /\ (year % 100 # 0 \/ year % 400 = 0)

daysIn(month, year) ==
    IF month = 2 THEN (IF isLeap(year) THEN 29 ELSE 28)
    ELSE IF month \in {4, 6, 9, 11} THEN 30 ELSE 31

\* Number of characters of a fractional second at the head of s ("." or ","
\* followed by at least one digit), 0 when there is none. time.Parse accepts
\* it after the seconds field although inputLayout does not name it.
RECURSIVE digitRun(_, _)
digitRun(s, k) == IF isDigit(s, k) THEN digitRun(s, k + 1) ELSE k - 1

fracLen(s) ==
    IF Len(s) >= 2 /\ s[1] \in {".", ","} /\ isDigit(s, 2) THEN digitRun(s, 2) ELSE 0

\* The milliseconds of a fractional second of n characters at the head of s.
fracMillis(s, n) ==
    LET d(k) == IF k <= n /\ k <= 10 THEN digitVal(s[k]) ELSE 0
    IN  d(2) * 100 + d(3) * 10 + d(4)

\* time.Parse(inputLayout, input) with inputLayout = "2006-01-02T15:04:05".
timeParse(input) ==
    LET bad  == [ok |-> FALSE, year |-> 0, month |-> 0, day |-> 0,
                 hour |-> 0, min |-> 0, sec |-> 0, msec |-> 0]
        y    == getyear(input)
        l1   == skip(y.rest, "-")
        mo   == getnum(l1.rest, TRUE)
        l2   == skip(mo.rest, "-")
        d    == getnum(l2.rest, TRUE)
        l3   == skip(d.rest, "T")
        h    == getnum(l3.rest, FALSE)
        l4   == skip(h.rest, ":")
        mi   == getnum(l4.rest, TRUE)
        l5   == skip(mi.rest, ":")
        s    == getnum(l5.rest, TRUE)
        fl   == fracLen(s.rest)
        tail == Drop(s.rest, fl)
    IN  IF ~y.ok \/ ~l1.ok THEN bad
        ELSE IF ~mo.ok \/ mo.n < 1 \/ mo.n > 12 \/ ~l2.ok THEN bad
        ELSE IF ~d.ok \/ ~l3.ok THEN bad
        ELSE IF ~h.ok \/ h.n >= 24 \/ ~l4.ok THEN bad
        ELSE IF ~mi.ok \/ mi.n >= 60 \/ ~l5.ok THEN bad
        ELSE IF ~s.ok \/ s.n >= 60 THEN bad
        ELSE IF Len(tail) # 0 THEN bad
        ELSE IF d.n < 1 \/ d.n > daysIn(mo.n, y.n) THEN bad
        ELSE [ok |-> TRUE, year |-> y.n, month |-> mo.n, day |-> d.n,
              hour |-> h.n, min |-> mi.n, sec |-> s.n,
              msec |-> IF fl = 0 THEN 0 ELSE fracMillis(s.rest, fl)]

pad2(n) == <<DigitChars[(n \div 10) + 1], DigitChars[(n % 10) + 1]>>

pad3(n) == <<DigitChars[(n \div 100) + 1]>> \o pad2(n % 100)

pad4(n) == pad2(n \div 100) \o pad2(n % 100)

\* Mutant of timeFormat: outputLayout lacks the milliseconds ("2006-01-02T15:04:05Z").
timeFormatNoMillis(t) ==
    pad4(t.year) \o <<"-">> \o pad2(t.month) \o <<"-">> \o pad2(t.day) \o <<"T">>
      \o pad2(t.hour) \o <<":">> \o pad2(t.min) \o <<":">> \o pad2(t.sec) \o <<"Z">>

\* t.UTC().Format(outputLayout) with outputLayout = "2006-01-02T15:04:05.000Z";
\* a time parsed without a zone is already in UTC.
timeFormat(t) ==
    pad4(t.year) \o <<"-">> \o pad2(t.month) \o <<"-">> \o pad2(t.day) \o <<"T">>
      \o pad2(t.hour) \o <<":">> \o pad2(t.min) \o <<":">> \o pad2(t.sec)
      \o <<".">> \o pad3(t.msec) \o <<"Z">>

NormalizeToESDate(input) ==
    LET t == timeParse(input)
    IN  IF t.ok THEN [err |-> FALSE, out |-> timeFormat(t)]
        ELSE [err |-> TRUE, out |-> <<>>]

\* ------------------------------------------------------------------ inputs
\* Publication dates an article of the file may carry.
DateA == <<"2", "0", "2", "4", "-", "0", "1", "-", "1", "5", "T", "1", "0", ":", "3", "0", ":", "0", "0">>

DateBad == <<"n", "o", "t", "-", "a", "-", "d", "a", "t", "e">>

PipelineDates == {DateA, DateBad}

\* A second well-formed input, "2024-02-29T23:59:59".
DateB ==
    <<"2", "0", "2", "4", "-", "0", "2", "-", "2", "9", "T", "2", "3", ":", "5", "9", ":", "5", "9">>

\* Dates that tell two articles of one identifier apart.
DupDates == {DateA, DateB}

\* What NormalizeToESDate returns for each date an article file carries; the
\* function is applied once to each.
normalized == [d \in PipelineDates \cup DupDates |-> NormalizeToESDate(d)]

\* Article identifiers of the file; two articles may share one.
ArticleIds == {"n1", "n2"}

\* type Article: the fields the claims read (ID, PublicationDate); the other
\* fields are copied to the document unchanged.
ArticlesOver(dates) == [ID : ArticleIds, PublicationDate : dates]

RECURSIVE SeqsUpTo(_, _)
SeqsUpTo(S, n) ==
    IF n = 0 THEN {<<>>}
    ELSE LET shorter == SeqsUpTo(S, n - 1)
         IN  shorter \cup {Append(q, x) : q \in {r \in shorter : Len(r) = n - 1}, x \in S}

\* What os.Stat / os.ReadFile / json.Unmarshal find at the path.
FilesOver(dates) ==
    {[state |-> st, content |-> <<>>] : st \in {"missing", "unreadable", "malformed"}}
      \cup {[state |-> "ok", content |-> c] : c \in SeqsUpTo(ArticlesOver(dates), MaxArticles)}

VARIABLES
    entry,          \* which main runs: "bulk" (src/utils/time.go) or "single" (src/cmd/main.go)
    bulkSize,       \* const bulkSize
    file,           \* the JSON file at the path
    pc,             \* position of main
    exitCode,       \* the process's exit status once pc = "exit" (-1 before)
    articles,       \* var articles []Article, once loaded
    i,              \* articles consumed by the range loop
    buf,            \* var buf bytes.Buffer: the (meta, document) lines not yet flushed
    index,          \* the store's index: "absent", "mapped" (created with the mapping), "dynamic"
    docs,           \* the store's documents: a set of [key, doc]
    requests,       \* write requests this run has submitted to the store, in order
    lastReply,      \* the store's reply to the latest request (op: exists, create, bulk, index)
    errKind,        \* the latest error this run met ("None" when none)
    errDetail,      \* the item error detail the returned error wraps (0 when none)
    itemErrorSeen,  \* some bulk reply of this run carried an item error
    flaggedSeen,    \* some bulk reply of this run had errors = true and carried an item error
    provisionCalls, \* calls of createMappingsSettings this run
    provisionDone,  \* createMappingsSettings has returned
    createRequests, \* create-index requests this run has issued
    summary,        \* the count of the "indexed %d articles" line (-1 when not logged)
    secondRun,      \* this is the second run over the same file
    docsAfterFirst, \* the store's documents when the first run ended
    dateInput,      \* the argument of a call of NormalizeToESDate on its own
    dateResult      \* what that call returned, once it has

vars == <<entry, bulkSize, file, pc, exitCode, articles, i, buf, index, docs, requests,
          lastReply, errKind, errDetail, itemErrorSeen, flaggedSeen, provisionCalls,
          provisionDone, createRequests, summary, secondRun, docsAfterFirst,
          dateInput, dateResult>>

\* What no step of a run of main changes.
config == <<entry, bulkSize, file, dateInput, dateResult>>

\* No call of NormalizeToESDate on its own has returned.
NoDateResult == [done |-> FALSE, err |-> FALSE, out |-> <<>>]

\* A reply of the store: op is the request it answers; errors, failed and stored
\* describe a reply to a write (see BulkReplies).
Reply(op, kind) == [op |-> op, kind |-> kind, errors |-> FALSE, failed |-> {}, stored |-> {}]

NoReply == Reply("none", "none")

Init ==
    /\ entry \in {"bulk", "single"}
    /\ bulkSize \in 1..MaxBulkSize
    /\ entry = "single" => bulkSize = 1
    /\ file \in FilesOver(PipelineDates)
    /\ pc = "newClient"
    /\ exitCode = -1
    /\ articles = <<>>
    /\ i = 0
    /\ buf = <<>>
    /\ index \in {"absent", "mapped"}
    /\ docs = {}
    /\ requests = <<>>
    /\ lastReply = NoReply
    /\ errKind = "None"
    /\ errDetail = 0
    /\ itemErrorSeen = FALSE
    /\ flaggedSeen = FALSE
    /\ provisionCalls = 0
    /\ provisionDone = FALSE
    /\ createRequests = 0
    /\ summary = -1
    /\ secondRun = FALSE
    /\ docsAfterFirst = {}
    /\ dateInput = <<>>
    /\ dateResult = NoDateResult

\* ------------------------------------------------------------- the store
\* The key a write lands under: the identifier the request names, or one the
\* store generates when the request names none.
StoreKey(d, e) ==
    IF e.meta.id # "" THEN [id |-> e.meta.id, gen |-> 0]
    ELSE [id |-> "", gen |-> Cardinality(d) + 1]

\* One write: the document replaces whatever the key held.
StorePut(d, e) ==
    LET k == StoreKey(d, e)
    IN  {x \in d : x.key # k} \cup {[key |-> k, doc |-> e.doc]}

\* The store applies the entries of batch at the positions in stored, in order.
RECURSIVE StoreApply(_, _, _, _)
StoreApply(d, batch, stored, k) ==
    IF k > Len(batch) THEN d
    ELSE StoreApply(IF k \in stored THEN StorePut(d, batch[k]) ELSE d, batch, stored, k + 1)

\* A first write to an absent index creates it with a dynamic mapping.
IndexAfterWrite(ix, stored) == IF ix = "absent" /\ stored # {} THEN "dynamic" ELSE ix

\* Replies to Indices.Exists: a transport error (no response), or a status.
ExistsReplies == {"error", IF index = "absent" THEN "404" ELSE "200", "503"}

\* Replies to IndicesCreateRequest.Do: a transport error, an error response, or
\* success (only an absent index can be created).
CreateReplies == {"transport", "error"} \cup (IF index = "absent" THEN {"created"} ELSE {})

\* Replies to es.Bulk for a batch. failed: the positions whose item carries an
\* error (the detail names the position); stored: the positions the store wrote.
\*   transport   : es.Bulk returns an error; the request may or may not have landed
\*   undecodable : the body is not JSON
\*   rejected    : a non-2xx status whose JSON body has neither errors nor items
\*   json        : a bulk response {errors, items}, the flag not tied to the items
BulkReplies(batch) ==
    LET pos == 1..Len(batch)
    IN  {[Reply("bulk", k) EXCEPT !.stored = st] :
            k \in {"transport", "undecodable"}, st \in {{}, pos}}
        \cup {Reply("bulk", "rejected")}
        \cup {[Reply("bulk", "json") EXCEPT !.errors = e, !.failed = f, !.stored = pos \ f] :
                e \in BOOLEAN, f \in SUBSET pos}

\* Replies to es.Index for one document.
IndexReplies ==
    {[Reply("index", "transport") EXCEPT !.stored = st] : st \in {{}, {1}}}
      \cup {Reply("index", "rejected"), [Reply("index", "json") EXCEPT !.stored = {1}]}

\* ------------------------------------------------------------ the drivers
SetMin(S) == CHOOSE x \in S : \A y \in S : x <= y

\* main after an error of article loading or ingestion: log.Fatal (exit 1) in
\* the bulk driver; the single driver prints the error and returns from main.
mainOnIngestError == IF entry = "bulk" THEN 1 ELSE 0

\* Mutant of mainOnProvisionError: main treats the error as fatal (log.Fatal).
mainOnProvisionErrorFatal == [pc |-> "exit", code |-> 1]

\* main after createMappingsSettings returned err: both drivers log and go on.
mainOnProvisionError == [pc |-> "load", code |-> -1]

\* Mutant of existsOutcome: the early return on status 200 is missing.
existsOutcomeNoEarlyReturn(reply) == IF reply = "error" THEN "panic" ELSE "create"

\* exists, _ := es.Indices.Exists(...); if exists.StatusCode == 200 { return nil }
\* On a transport error exists is nil and exists.StatusCode panics.
existsOutcome(reply) ==
    IF reply = "error" THEN "panic"
    ELSE IF reply = "200" THEN "return"
    ELSE "create"

\* Mutant of bulkMeta: the action line names no _id, so the store generates one.
bulkMetaNoId(a) == [id |-> ""]

\* The bulk action line of an article: { "index": { "_index": ..., "_id": a.ID } }
bulkMeta(a) == [id |-> a.ID]

\* es.Index.WithDocumentID(a.ID) of the single driver.
indexMeta(a) == [id |-> a.ID]

\* The document body built from an article and its normalized date.
bulkDoc(a, formattedDate) == [id |-> a.ID, publication_date |-> formattedDate]

\* Mutant of flushDue: the test uses the loop index i instead of i+1.
flushDueOnIndex(n) == (n - 1) % bulkSize = 0

\* Mutant of flushDue: the test is against bulkSize + 1.
flushDueOffByOne(n) == n % (bulkSize + 1) = 0

\* if (i+1)%bulkSize == 0, with n = i+1 the articles consumed so far.
flushDue(n) == n % bulkSize = 0

\* Mutant of bufEmpty: the guard against an empty payload is missing.
bufEmptyNever(b) == FALSE

\* if buf.Len() == 0 { return nil }
bufEmpty(b) == Len(b) = 0

\* Mutant of flushBulkResult: the items of the response are never scanned.
flushBulkResultIgnoresItems(reply) ==
    IF reply.kind = "transport" THEN [err |-> "BulkSubmitError", detail |-> 0]
    ELSE IF reply.kind = "undecodable" THEN [err |-> "BulkDecodeError", detail |-> 0]
    ELSE [err |-> "None", detail |-> 0]

\* Mutant of flushBulkResult: only the first item of the response is looked at.
flushBulkResultFirstItemOnly(reply) ==
    IF reply.kind = "transport" THEN [err |-> "BulkSubmitError", detail |-> 0]
    ELSE IF reply.kind = "undecodable" THEN [err |-> "BulkDecodeError", detail |-> 0]
    ELSE IF reply.errors /\ 1 \in reply.failed
         THEN [err |-> "BulkItemError", detail |-> 1]
         ELSE [err |-> "None", detail |-> 0]

\* Mutant of SetMin: the greatest element.
SetMax(S) == CHOOSE x \in S : \A y \in S : x >= y

\* Mutant of flushBulkResult: the scan keeps the last item that carries an error.
flushBulkResultLastItem(reply) ==
    IF reply.kind = "transport" THEN [err |-> "BulkSubmitError", detail |-> 0]
    ELSE IF reply.kind = "undecodable" THEN [err |-> "BulkDecodeError", detail |-> 0]
    ELSE IF reply.errors /\ reply.failed # {}
         THEN [err |-> "BulkItemError", detail |-> SetMax(reply.failed)]
         ELSE [err |-> "None", detail |-> 0]

\* Mutant of flushBulkResult: an error of es.Bulk is not returned.
flushBulkResultSwallowsTransport(reply) ==
    IF reply.kind = "transport" THEN [err |-> "None", detail |-> 0]
    ELSE IF reply.kind = "undecodable" THEN [err |-> "BulkDecodeError", detail |-> 0]
    ELSE IF reply.errors /\ reply.failed # {}
         THEN [err |-> "BulkItemError", detail |-> SetMin(reply.failed)]
         ELSE [err |-> "None", detail |-> 0]

\* The error flushBulk returns for a reply ("None" for nil).
flushBulkResult(reply) ==
    IF reply.kind = "transport" THEN [err |-> "BulkSubmitError", detail |-> 0]
    ELSE IF reply.kind = "undecodable" THEN [err |-> "BulkDecodeError", detail |-> 0]
    ELSE IF reply.errors /\ reply.failed # {}
         THEN [err |-> "BulkItemError", detail |-> SetMin(reply.failed)]
         ELSE [err |-> "None", detail |-> 0]

\* The error loadNewsFromFile returns for the reply to one es.Index call.
indexResult(reply) ==
    IF reply.kind = "transport" THEN "IndexSubmitError"
    ELSE IF reply.kind = "rejected" THEN "IndexResponseError"
    ELSE "None"

\* Mutant of NewClient: main goes on to load the articles without calling
\* createMappingsSettings.
NewClientThenLoad ==
    /\ pc = "newClient"
    /\ \E ok \in BOOLEAN :
         IF ok THEN pc' = "load" /\ UNCHANGED <<exitCode, errKind>>
         ELSE pc' = "exit" /\ exitCode' = 1 /\ errKind' = "ClientInitError"
    /\ UNCHANGED <<config, articles, i, buf, index, docs, requests, lastReply, errDetail,
                   itemErrorSeen, flaggedSeen, provisionCalls, provisionDone, createRequests,
                   summary, secondRun, docsAfterFirst>>

\* elasticsearch.NewClient(cfg); log.Fatal on error.
NewClient ==
    /\ pc = "newClient"
    /\ \E ok \in BOOLEAN :
         IF ok THEN pc' = "exists" /\ UNCHANGED <<exitCode, errKind>>
         ELSE pc' = "exit" /\ exitCode' = 1 /\ errKind' = "ClientInitError"
    /\ UNCHANGED <<config, articles, i, buf, index, docs, requests, lastReply, errDetail,
                   itemErrorSeen, flaggedSeen, provisionCalls, provisionDone, createRequests, summary,
                   secondRun, docsAfterFirst>>

\* createMappingsSettings up to the existence check.
ExistsCheck ==
    /\ pc = "exists"
    /\ provisionCalls' = provisionCalls + 1
    /\ \E reply \in ExistsReplies :
         /\ lastReply' = Reply("exists", reply)
         /\ LET out == existsOutcome(reply)
            IN  \/ /\ out = "panic"
                   /\ pc' = "exit" /\ exitCode' = 2 /\ errKind' = "ExistsCheckError"
                   /\ UNCHANGED provisionDone
                \/ /\ out = "return"
                   /\ pc' = "load" /\ provisionDone' = TRUE
                   /\ UNCHANGED <<exitCode, errKind>>
                \/ /\ out = "create"
                   /\ pc' = "create"
                   /\ UNCHANGED <<exitCode, errKind, provisionDone>>
    /\ UNCHANGED <<config, articles, i, buf, index, docs, requests, errDetail,
                   itemErrorSeen, flaggedSeen, createRequests, summary, secondRun, docsAfterFirst>>

\* createMappingsSettings from the create request to its return, and main's
\* handling of the returned error.
CreateIndex ==
    /\ pc = "create"
    /\ createRequests' = createRequests + 1
    /\ provisionDone' = TRUE
    /\ \E reply \in CreateReplies :
         /\ lastReply' = Reply("create", reply)
         /\ \/ /\ reply = "transport"
               /\ errKind' = "SchemaCreateError"
               /\ pc' = mainOnProvisionError.pc /\ exitCode' = mainOnProvisionError.code
               /\ UNCHANGED index
            \/ /\ reply = "error"
               /\ errKind' = "SchemaCreateError"
               /\ pc' = "load"
               /\ UNCHANGED <<index, exitCode>>
            \/ /\ reply = "created"
               /\ index' = "mapped"
               /\ pc' = "load"
               /\ UNCHANGED <<errKind, exitCode>>
    /\ UNCHANGED <<config, articles, i, buf, docs, requests, errDetail,
                   itemErrorSeen, flaggedSeen, provisionCalls, summary, secondRun, docsAfterFirst>>

\* loadArticles (bulk) and the head of loadNewsFromFile (single): os.Stat,
\* os.ReadFile, json.Unmarshal; main's handling of the returned error.
LoadArticles ==
    /\ pc = "load"
    /\ IF file.state = "ok"
       THEN /\ articles' = file.content
            /\ pc' = "loop"
            /\ UNCHANGED <<exitCode, errKind>>
       ELSE /\ errKind' = (IF file.state = "missing" THEN "FileNotFound"
                           ELSE IF file.state = "unreadable" THEN "FileReadError"
                           ELSE "FileParseError")
            /\ pc' = "exit" /\ exitCode' = mainOnIngestError
            /\ UNCHANGED articles
    /\ UNCHANGED <<config, i, buf, index, docs, requests, lastReply, errDetail,
                   itemErrorSeen, flaggedSeen, provisionCalls, provisionDone, createRequests, summary,
                   secondRun, docsAfterFirst>>

\* One pass of bulkIndex's range loop up to the flush test.
AppendArticle ==
    /\ pc = "loop" /\ entry = "bulk" /\ i < Len(articles)
    /\ LET a == articles[i + 1]
           d == normalized[a.PublicationDate]
       IN  IF d.err
           THEN /\ errKind' = "DateParseError"
                /\ pc' = "exit" /\ exitCode' = mainOnIngestError
                /\ UNCHANGED <<i, buf>>
           ELSE /\ buf' = Append(buf, [meta |-> bulkMeta(a), doc |-> bulkDoc(a, d.out)])
                /\ i' = i + 1
                /\ pc' = (IF flushDue(i + 1) THEN "flush" ELSE "loop")
                /\ UNCHANGED <<exitCode, errKind>>
    /\ UNCHANGED <<config, articles, index, docs, requests, lastReply, errDetail,
                   itemErrorSeen, flaggedSeen, provisionCalls, provisionDone, createRequests, summary,
                   secondRun, docsAfterFirst>>

\* Mutant of bulkIndexOnFlushError: the flush is tried again.
bulkIndexOnFlushErrorRetry == "flush"

\* Where the run goes when flushBulk returned an error: bulkIndex returns it and
\* main ends the process.
bulkIndexOnFlushError == "exit"

\* Mutant of bufReset: the buffer keeps its content after a flush.
bufResetMissing == buf

\* buf.Reset() at the end of a flush that found no error.
bufReset == <<>>

\* flushBulk(ctx, es, &buf) and the caller's handling of its result: on nil the
\* run goes on at okPc (with exit status okCode and the summary count okSummary
\* when that is the end of main); on an error bulkIndex returns it to main.
flushBulk(okPc, okCode, okSummary) ==
    IF bufEmpty(buf)
    THEN /\ pc' = okPc /\ exitCode' = okCode /\ summary' = okSummary
         /\ UNCHANGED <<buf, index, docs, requests, lastReply, errKind, errDetail,
                        itemErrorSeen, flaggedSeen>>
    ELSE \E reply \in BulkReplies(buf) :
           LET res == flushBulkResult(reply)
           IN  /\ requests' = Append(requests, buf)
               /\ lastReply' = reply
               /\ docs' = StoreApply(docs, buf, reply.stored, 1)
               /\ index' = IndexAfterWrite(index, reply.stored)
               /\ itemErrorSeen' = (itemErrorSeen \/ reply.failed # {})
               /\ flaggedSeen' = (flaggedSeen \/ (reply.errors /\ reply.failed # {}))
               /\ IF res.err = "None"
                  THEN /\ buf' = bufReset
                       /\ pc' = okPc /\ exitCode' = okCode /\ summary' = okSummary
                       /\ UNCHANGED <<errKind, errDetail>>
                  ELSE /\ errKind' = res.err /\ errDetail' = res.detail
                       /\ pc' = bulkIndexOnFlushError /\ exitCode' = mainOnIngestError
                       /\ UNCHANGED <<buf, summary>>

\* The flush inside the loop, after every bulkSize-th article.
Flush ==
    /\ pc = "flush"
    /\ flushBulk("loop", -1, -1)
    /\ UNCHANGED <<config, articles, i, provisionCalls, provisionDone, createRequests,
                   secondRun, docsAfterFirst>>

\* Mutant of summaryCount: the count is the size of the buffer at the end of the loop.
summaryCountLastBatch == Len(buf)

\* The count of main's summary line: log.Info("indexed %d articles", len(articles)).
summaryCount == Len(articles)

\* The final flushBulk after the loop, and main's summary line.
Drain ==
    /\ pc = "loop" /\ entry = "bulk" /\ i = Len(articles)
    /\ flushBulk("exit", 0, summaryCount)
    /\ UNCHANGED <<config, articles, i, provisionCalls, provisionDone, createRequests,
                   secondRun, docsAfterFirst>>

\* One pass of loadNewsFromFile's loop: normalize, es.Index with the document id.
IndexArticle ==
    /\ pc = "loop" /\ entry = "single" /\ i < Len(articles)
    /\ LET a == articles[i + 1]
           d == normalized[a.PublicationDate]
           e == [meta |-> indexMeta(a), doc |-> bulkDoc(a, d.out)]
       IN  IF d.err
           THEN /\ errKind' = "DateParseError"
                /\ pc' = "exit" /\ exitCode' = mainOnIngestError
                /\ UNCHANGED <<i, index, docs, requests, lastReply>>
           ELSE \E reply \in IndexReplies :
                  /\ requests' = Append(requests, <<e>>)
                  /\ lastReply' = reply
                  /\ docs' = StoreApply(docs, <<e>>, reply.stored, 1)
                  /\ index' = IndexAfterWrite(index, reply.stored)
                  /\ IF indexResult(reply) = "None"
                     THEN i' = i + 1 /\ UNCHANGED <<pc, exitCode, errKind>>
                     ELSE /\ errKind' = indexResult(reply)
                          /\ pc' = "exit" /\ exitCode' = mainOnIngestError
                          /\ UNCHANGED i
    /\ UNCHANGED <<config, articles, buf, errDetail, itemErrorSeen, flaggedSeen, provisionCalls,
                   provisionDone, createRequests, summary, secondRun, docsAfterFirst>>

\* loadNewsFromFile returns nil after the last article; main prints the time.
IndexDone ==
    /\ pc = "loop" /\ entry = "single" /\ i = Len(articles)
    /\ pc' = "exit" /\ exitCode' = 0
    /\ UNCHANGED <<config, articles, i, buf, index, docs, requests, lastReply, errKind,
                   errDetail, itemErrorSeen, flaggedSeen, provisionCalls, provisionDone, createRequests,
                   summary, secondRun, docsAfterFirst>>

\* The program is started a second time over the same file, against the store
\* the first run left, after the first run exited with status 0.
Rerun ==
    /\ pc = "exit" /\ exitCode = 0 /\ ~secondRun
    /\ secondRun' = TRUE
    /\ docsAfterFirst' = docs
    /\ pc' = "newClient" /\ exitCode' = -1
    /\ articles' = <<>> /\ i' = 0 /\ buf' = <<>>
    /\ requests' = <<>> /\ lastReply' = NoReply
    /\ errKind' = "None" /\ errDetail' = 0 /\ itemErrorSeen' = FALSE /\ flaggedSeen' = FALSE
    /\ provisionCalls' = 0 /\ provisionDone' = FALSE /\ createRequests' = 0
    /\ summary' = -1
    /\ UNCHANGED <<config, index, docs>>

Next ==
    \/ NewClient
    \/ ExistsCheck
    \/ CreateIndex
    \/ LoadArticles
    \/ AppendArticle
    \/ Flush
    \/ Drain
    \/ IndexArticle
    \/ IndexDone
    \/ Rerun

Spec == Init /\ [][Next]_vars

\* ------------------------------------------------------------------ claims
CeilDiv(n, b) == (n + b - 1) \div b

RECURSIVE Flatten(_)
Flatten(batches) ==
    IF batches = <<>> THEN <<>> ELSE Head(batches) \o Flatten(Tail(batches))

\* The (meta, document) entry bulkIndex appends for an article.
EntryOf(a) == [meta |-> bulkMeta(a), doc |-> bulkDoc(a, NormalizeToESDate(a.PublicationDate).out)]

\* The entries of articles[from..to].
EntriesOf(from, to) == [k \in 1..(to - from + 1) |-> EntryOf(articles[from + k - 1])]

\* bulkIndex returned nil and main logged its summary line.
BulkIndexReturnedNil == entry = "bulk" /\ pc = "exit" /\ summary >= 0

\* Every article of the loaded file normalizes.
AllNormalized == \A k \in 1..Len(articles) : ~NormalizeToESDate(articles[k].PublicationDate).err

\* C1: no request with an empty payload is ever submitted, and when bulkIndex
\* returns nil over N articles with batch size B it has submitted exactly
\* ceil(N/B) bulk requests: every one but the last carries B records, the last
\* carries N mod B (B when N is a positive multiple of B); none when N = 0.
C1_FlushCountAndSizes ==
    /\ \A k \in 1..Len(requests) : Len(requests[k]) >= 1
    /\ BulkIndexReturnedNil =>
         LET N == Len(articles)
             R == Len(requests)
         IN  /\ R = CeilDiv(N, bulkSize)
             /\ \A k \in 1..(R - 1) : Len(requests[k]) = bulkSize
             /\ R > 0 => Len(requests[R]) = (IF N % bulkSize = 0 THEN bulkSize ELSE N % bulkSize)

\* C1 witness: three articles, batch size three: one full batch, and the final
\* drain call found the buffer empty and submitted nothing.
C1_Witness ==
    BulkIndexReturnedNil /\ Len(articles) = 3 /\ bulkSize = 3 /\ Len(requests) = 1

DateFailureAbort == entry = "bulk" /\ pc = "exit" /\ errKind = "DateParseError"

\* C3 as stated: when record k = i+1 is the first to fail normalization, flushes
\* 1..ceil((k-1)/B) have been submitted and none contains record k or later.
C3_FlushesBeforeDateFailureCeil ==
    DateFailureAbort =>
        /\ Len(requests) = CeilDiv(i, bulkSize)
        /\ Len(Flatten(requests)) <= i

\* C3 amended: when record k = i+1 is the first to fail normalization, exactly
\* flushes 1..floor((k-1)/B) have been submitted, holding records
\* 1..B*floor((k-1)/B) in order; the (k-1) mod B records after them are still in
\* the buffer, unsubmitted; no flush contains record k or a later one.
C3_FlushesBeforeDateFailureFloor ==
    DateFailureAbort =>
        LET full == i \div bulkSize
        IN  /\ NormalizeToESDate(articles[i + 1].PublicationDate).err
            /\ \A k \in 1..i : ~NormalizeToESDate(articles[k].PublicationDate).err
            /\ Len(requests) = full
            /\ \A k \in 1..full : Len(requests[k]) = bulkSize
            /\ Flatten(requests) = EntriesOf(1, bulkSize * full)
            /\ buf = EntriesOf(bulkSize * full + 1, i)

\* C3 witness: batch size two, the third record fails: one flush was submitted
\* with records 1 and 2.
C3_Witness == DateFailureAbort /\ bulkSize = 2 /\ i = 2 /\ Len(requests) = 1

\* C4: a bulk response with errors = true in which an item carries an error
\* makes flushBulk return an item error and the run fail.
C4_FlaggedItemErrorFails ==
    (lastReply.op = "bulk" /\ lastReply.kind = "json" /\ lastReply.errors /\ lastReply.failed # {})
        => (pc = "exit" /\ exitCode # 0 /\ errKind = "BulkItemError")

\* C4 witness: the flush of a three-record batch got errors = true with an
\* error on its second item only.
C4_Witness ==
    /\ lastReply.op = "bulk" /\ lastReply.kind = "json" /\ lastReply.errors
    /\ lastReply.failed = {2}
    /\ Len(requests) = 1 /\ Len(requests[1]) = 3
    /\ errKind = "BulkItemError"

\* The error kinds the specification lists as fatal.
FatalKinds ==
    {"FileNotFound", "FileParseError", "ClientInitError", "DateParseError",
     "BulkSubmitError", "BulkItemError"}

\* C5 as stated: in either driver, a run that met one of the fatal error kinds
\* ends with a non-zero exit status.
C5_FatalErrorsExitNonZero ==
    (pc = "exit" /\ errKind \in FatalKinds) => exitCode # 0

Keys(d) == {x.key : x \in d}

\* The first run left a document for every article of the file.
FirstRunStoredAll ==
    \A k \in 1..Len(file.content) : \E x \in docsAfterFirst : x.doc.id = file.content[k].ID

\* C6: throughout a second run over the same file, against the store a complete
\* first run left, the store holds the same document keys and the same number
\* of documents as after the first run.
C6_RerunAddsNoDocuments ==
    (secondRun /\ FirstRunStoredAll) =>
        /\ Keys(docs) = Keys(docsAfterFirst)
        /\ Cardinality(docs) = Cardinality(docsAfterFirst)

\* C6 witness: a second bulk run over three articles with two identifiers ended
\* in success after writing to the store, which holds two documents.
C6_Witness ==
    /\ secondRun /\ FirstRunStoredAll /\ BulkIndexReturnedNil
    /\ Len(articles) = 3 /\ Cardinality(docs) = 2
    /\ lastReply.op = "bulk" /\ lastReply.stored # {}

\* C7: createMappingsSettings is never called twice in a run, and once main is
\* at article loading or beyond, or any write request has been submitted, it
\* has been called exactly once and has returned.
C7_ProvisionOnceBeforeWrites ==
    /\ provisionCalls <= 1
    /\ (pc \in {"load", "loop", "flush"} \/ requests # <<>>) =>
          (provisionCalls = 1 /\ provisionDone)

\* C7 witness: a bulk request has been submitted after a provisioning call that
\* issued a create-index request.
C7_Witness ==
    entry = "bulk" /\ requests # <<>> /\ provisionCalls = 1 /\ createRequests = 1

\* C8: when the existence check answers 200, createMappingsSettings returns nil
\* with no create-index request, and the store's index and documents unchanged.
C8_ExistingIndexUntouched ==
    [][(pc = "exists" /\ lastReply'.op = "exists" /\ lastReply'.kind = "200") =>
          /\ pc' = "load" /\ provisionDone'
          /\ createRequests' = createRequests
          /\ index' = index /\ docs' = docs
          /\ errKind' = errKind /\ exitCode' = exitCode]_vars

\* C8 witness: the check answered 200 for an existing index and main is at
\* article loading with no create-index request issued.
C8_Witness ==
    /\ lastReply = Reply("exists", "200") /\ pc = "load"
    /\ index = "mapped" /\ createRequests = 0 /\ provisionDone

\* C9 as stated: after a failed existence check (an error, no response) the run
\* has not ended and goes on to index creation.
C9_ExistsErrorSwallowed ==
    (lastReply.op = "exists" /\ lastReply.kind = "error") => (pc = "create" /\ exitCode = -1)

\* C10: a failed create request (transport error or error response) leaves main
\* running, next at article loading; in the bulk driver every other error kind
\* ends the run at once with a non-zero exit status.
C10_OnlyCreateFailureContinues ==
    [][/\ (pc = "create" /\ lastReply'.op = "create" /\ lastReply'.kind \in {"transport", "error"}) =>
             (pc' = "load" /\ exitCode' = -1 /\ errKind' = "SchemaCreateError")
       /\ (entry = "bulk" /\ errKind' # errKind /\ errKind' \notin {"None", "SchemaCreateError"}) =>
             (pc' = "exit" /\ exitCode' > 0)]_vars

\* C10 witness: after a create request failed with a transport error, the bulk
\* driver loaded the articles, ingested them and exited with status 0.
C10_Witness ==
    /\ entry = "bulk" /\ errKind = "SchemaCreateError" /\ BulkIndexReturnedNil
    /\ requests # <<>> /\ index = "dynamic"

\* ------------------------------------------- NormalizeToESDate on its own
\* Timestamps of the shape yyyy-MM-ddTHH:mm:ss, fields in and out of range.
ShapedInputs ==
    {pad4(y) \o <<"-">> \o pad2(mo) \o <<"-">> \o pad2(d) \o <<"T">>
       \o pad2(h) \o <<":">> \o pad2(mi) \o <<":">> \o pad2(sc) :
         y \in {2023, 2024}, mo \in {0, 1, 2, 12, 13}, d \in {0, 1, 29, 30, 31, 32},
         h \in {0, 9, 23, 24}, mi \in {0, 59, 60}, sc \in {0, 59, 60}}

\* What may follow the seconds of a timestamp.
Suffixes ==
    {<<".", "5">>, <<".", "1", "2", "3">>, <<",", "1", "2", "3">>, <<".", "1", "2", "3", "4">>,
     <<".">>, <<"Z">>, <<"+", "0", "5", ":", "3", "0">>, <<" ">>, <<".", "0", "0", "0", "Z">>}

\* DateA with its two-digit hour replaced by the one-digit hour h.
OneDigitHour(h) == SubSeq(DateA, 1, 11) \o <<h>> \o SubSeq(DateA, 14, 19)

\* Strings that are not of the shape yyyy-MM-ddTHH:mm:ss.
UnshapedInputs ==
    {DateBad, <<>>, SubSeq(DateA, 1, 10), SubSeq(DateA, 1, 16),
     SubSeq(DateA, 1, 10) \o <<" ">> \o SubSeq(DateA, 12, 19),
     SubSeq(DateA, 1, 10) \o <<"t">> \o SubSeq(DateA, 12, 19),
     SubSeq(DateA, 3, 19), OneDigitHour("9"), OneDigitHour("0")}
      \cup {DateA \o x : x \in Suffixes}

DateInputs == ShapedInputs \cup UnshapedInputs \cup {DateA}

\* s has the shape yyyy-MM-ddTHH:mm:ss: nineteen characters, digits and
\* separators in their places.
HasInputShape(s) ==
    /\ Len(s) = 19
    /\ \A k \in {1, 2, 3, 4, 6, 7, 9, 10, 12, 13, 15, 16, 18, 19} : isDigit(s, k)
    /\ s[5] = "-" /\ s[8] = "-" /\ s[11] = "T" /\ s[14] = ":" /\ s[17] = ":"

\* The number written by the two digits of s at k.
Num2(s, k) == digitVal(s[k]) * 10 + digitVal(s[k + 1])

\* s is a timestamp in the input pattern: of the shape, and naming a date and a
\* time of day that exist.
IsTimestamp(s) ==
    /\ HasInputShape(s)
    /\ Num2(s, 6) \in 1..12
    /\ Num2(s, 9) \in 1..daysIn(Num2(s, 6), Num2(s, 1) * 100 + Num2(s, 3))
    /\ Num2(s, 12) \in 0..23 /\ Num2(s, 15) \in 0..59 /\ Num2(s, 18) \in 0..59

InitDate ==
    /\ dateInput \in DateInputs
    /\ dateResult = NoDateResult
    /\ entry = "bulk" /\ bulkSize = 1
    /\ file = [state |-> "missing", content |-> <<>>]
    /\ pc = "normalize" /\ exitCode = -1
    /\ articles = <<>> /\ i = 0 /\ buf = <<>>
    /\ index = "absent" /\ docs = {} /\ requests = <<>> /\ lastReply = NoReply
    /\ errKind = "None" /\ errDetail = 0 /\ itemErrorSeen = FALSE /\ flaggedSeen = FALSE
    /\ provisionCalls = 0 /\ provisionDone = FALSE /\ createRequests = 0
    /\ summary = -1 /\ secondRun = FALSE /\ docsAfterFirst = {}

\* One call NormalizeToESDate(dateInput).
Normalize ==
    /\ pc = "normalize" /\ ~dateResult.done
    /\ LET r == NormalizeToESDate(dateInput)
       IN  dateResult' = [done |-> TRUE, err |-> r.err, out |-> r.out]
    /\ UNCHANGED <<entry, bulkSize, file, pc, exitCode, articles, i, buf, index, docs,
                   requests, lastReply, errKind, errDetail, itemErrorSeen, flaggedSeen,
                   provisionCalls, provisionDone, createRequests, summary, secondRun,
                   docsAfterFirst, dateInput>>

NextDate == Normalize

SpecDate == InitDate /\ [][NextDate]_vars

\* C11: for every timestamp in the input pattern yyyy-MM-ddTHH:mm:ss,
\* NormalizeToESDate succeeds and returns the input followed by ".000Z".
C11_TimestampGetsMillisAndZ ==
    (dateResult.done /\ IsTimestamp(dateInput)) =>
        (~dateResult.err /\ dateResult.out = dateInput \o <<".", "0", "0", "0", "Z">>)

\* C11 witness: "2024-01-15T10:30:00" returned "2024-01-15T10:30:00.000Z".
C11_Witness ==
    /\ dateResult.done /\ dateInput = DateA /\ ~dateResult.err
    /\ dateResult.out = DateA \o <<".", "0", "0", "0", "Z">>

\* C12 as stated: for every string that is not of the shape
\* yyyy-MM-ddTHH:mm:ss, NormalizeToESDate fails and returns no string.
C12_UnshapedInputFails ==
    (dateResult.done /\ ~HasInputShape(dateInput)) => (dateResult.err /\ dateResult.out = <<>>)

\* ------------------------------------------------- the run as a whole
\* The bulk driver ended through log.Fatal or a panic.
Failed == entry = "bulk" /\ pc = "exit" /\ exitCode # 0

\* C13: the summary line is logged only when the run has succeeded (bulkIndex
\* returned nil, exit status 0), and its count is the number of records
\* submitted over all bulk requests, which is the number of articles loaded.
C13_SummaryOnlyOnSuccessWithCount ==
    summary >= 0 =>
        /\ entry = "bulk" /\ pc = "exit" /\ exitCode = 0
        /\ errKind \in {"None", "SchemaCreateError"}
        /\ summary = Len(Flatten(requests))
        /\ summary = Len(articles)

\* C13 witness: three articles went out in two requests and the summary says 3.
C13_Witness ==
    BulkIndexReturnedNil /\ bulkSize = 2 /\ Len(requests) = 2 /\ summary = 3

\* A step of the bulk driver that submitted a bulk request.
Submitted == entry = "bulk" /\ Len(requests') = Len(requests) + 1

\* A step in which the next article's date does not normalize.
NormalizeFails ==
    /\ entry = "bulk" /\ pc = "loop" /\ i < Len(articles)
    /\ NormalizeToESDate(articles[i + 1].PublicationDate).err

\* A failed run takes no further step, and what the store held before a step
\* it holds after it, but for the keys the step's own batch wrote.
AbortIsFinal ==
    /\ ~Failed
    /\ \A x \in docs :
         \/ x \in docs'
         \/ Submitted /\ \E k \in lastReply'.stored : StoreKey(docs, buf[k]) = x.key

FlaggedItemErrorReply ==
    /\ entry = "bulk" /\ lastReply.op = "bulk" /\ lastReply.kind = "json"
    /\ lastReply.errors /\ lastReply.failed # {}

\* C15: when a bulk response has the errors flag set, the error flushBulk returns
\* carries the detail of the first item, in response order, that has an error;
\* what the items after it hold changes nothing of the returned error, which
\* names one item and no count.
C15_FirstItemErrorReported ==
    /\ FlaggedItemErrorReply =>
         /\ Failed /\ errKind = "BulkItemError"
         /\ errDetail \in lastReply.failed
         /\ \A k \in lastReply.failed : errDetail <= k
    /\ \A r1, r2 \in BulkReplies(buf) :
         (/\ r1.kind = "json" /\ r2.kind = "json" /\ r1.errors /\ r2.errors
          /\ r1.failed # {} /\ r2.failed # {}
          /\ \A k \in 1..Len(buf) :
               (\A j \in 1..(k - 1) : j \notin r1.failed) =>
                   (k \in r1.failed <=> k \in r2.failed))
           => flushBulkResult(r1) = flushBulkResult(r2)

\* C15 witness: the second and third items of a three-record batch carried an
\* error; the returned error is the second item's.
C15_Witness ==
    FlaggedItemErrorReply /\ lastReply.failed = {2, 3} /\ errKind = "BulkItemError" /\ errDetail = 2

\* C16: flushes are sequential and in source order. A request is submitted only
\* after the response to the one before it was processed and found without
\* error; the requests so far followed by the buffer are the articles processed
\* so far, in order, each once (the buffer starts empty after each flush); and
\* when bulkIndex returns nil the requests in order are the whole input.
C16_FlushesSequentialInOrder ==
    /\ []((entry = "bulk" /\ ~Failed /\ pc \in {"loop", "flush", "exit"}) =>
            Flatten(requests) \o buf = EntriesOf(1, i))
    /\ [](BulkIndexReturnedNil =>
            (buf = <<>> /\ Flatten(requests) = EntriesOf(1, Len(articles))))
    /\ [][Submitted =>
            /\ requests' = Append(requests, buf)
            /\ requests # <<>> =>
                 (lastReply.op = "bulk" /\ flushBulkResult(lastReply).err = "None")]_vars

\* C16 witness: three articles, the second differing from the first, went out
\* one by one in three requests, in the order of the file.
C16_Witness ==
    /\ BulkIndexReturnedNil /\ bulkSize = 1 /\ Len(requests) = 3
    /\ articles[1] # articles[2]
    /\ \A k \in 1..3 : requests[k] = <<EntryOf(articles[k])>>

\* ------------------------------------- articles that share an identifier
\* The bulk driver started once over a readable file of well-formed articles.
InitDup ==
    /\ entry = "bulk"
    /\ bulkSize \in 1..MaxBulkSize
    /\ file \in {f \in FilesOver(DupDates) : f.state = "ok"}
    /\ pc = "newClient" /\ exitCode = -1
    /\ articles = <<>> /\ i = 0 /\ buf = <<>>
    /\ index \in {"absent", "mapped"} /\ docs = {} /\ requests = <<>> /\ lastReply = NoReply
    /\ errKind = "None" /\ errDetail = 0 /\ itemErrorSeen = FALSE /\ flaggedSeen = FALSE
    /\ provisionCalls = 0 /\ provisionDone = FALSE /\ createRequests = 0
    /\ summary = -1 /\ secondRun = FALSE /\ docsAfterFirst = {}
    /\ dateInput = <<>> /\ dateResult = NoDateResult

NextDup ==
    \/ NewClient
    \/ ExistsCheck
    \/ CreateIndex
    \/ LoadArticles
    \/ AppendArticle
    \/ Flush
    \/ Drain

SpecDup == InitDup /\ [][NextDup]_vars

\* The position of the last article that carries the identifier id.
LastWith(id) ==
    CHOOSE k \in 1..Len(articles) :
      /\ articles[k].ID = id
      /\ \A j \in (k + 1)..Len(articles) : articles[j].ID # id

\* C17 as stated: when bulkIndex returns nil, the document the store holds under
\* an identifier is the one built from the last article with that identifier.
C17_LastRecordWins ==
    BulkIndexReturnedNil =>
        \A x \in docs : x.doc = EntryOf(articles[LastWith(x.key.id)]).doc

\* ------------------------------------------------ batches and the store
\* C18: in every state of bulkIndex the buffer holds at most bulkSize records,
\* fewer than bulkSize whenever the loop is about to take the next article, and
\* every bulk request submitted carries between 1 and bulkSize records.
C18_BatchSizeInvariant ==
    entry = "bulk" =>
        /\ Len(buf) <= bulkSize
        /\ pc = "loop" => Len(buf) < bulkSize
        /\ \A k \in 1..Len(requests) : Len(requests[k]) \in 1..bulkSize

\* C18 witness: with batch size two, a full batch of two went out and the third
\* article sits alone in the buffer as the loop goes on.
C18_Witness ==
    /\ entry = "bulk" /\ bulkSize = 2 /\ pc = "loop" /\ i = 3
    /\ Len(requests) = 1 /\ Len(requests[1]) = 2 /\ Len(buf) = 1

\* C19 as stated: when bulkIndex returns nil and the summary is logged, the store
\* holds a document under the identifier of every article, whatever the store
\* replied to the bulk requests.
C19_SuccessMeansAllStored ==
    BulkIndexReturnedNil =>
        \A k \in 1..Len(articles) : \E x \in docs : x.key.id = articles[k].ID

\* ------------------------------------------------------------ termination
\* One run of the bulk driver, from process start.
InitBulk == Init /\ entry = "bulk"

\* The driver is one sequential process and every store call returns: a step
\* that can be taken is taken.
SpecFair == InitBulk /\ [][NextDup]_vars /\ WF_vars(NextDup)

\* C20: the run ends, in success or in failure; each article is taken once, in
\* order; no more than ceil(N/B) bulk requests are submitted; a flush is never
\* followed by another flush of the same batch; and an ended run stays ended.
C20_Terminates ==
    /\ <>(pc = "exit")
    /\ [](Len(requests) <= CeilDiv(Len(articles), bulkSize))
    /\ [][/\ i' \in {i, i + 1}
          /\ pc = "flush" => pc' # "flush"
          /\ pc # "exit"]_vars

\* C20 witness: three articles, batch size two: the run ended in success after
\* two requests.
C20_Witness ==
    /\ pc = "exit" /\ exitCode = 0 /\ i = 3 /\ bulkSize = 2 /\ Len(requests) = 2
    /\ ~itemErrorSeen /\ Cardinality(docs) >= 1

====
